---- MODULE Spec2Model ----
(***************************************************************************)
(* The issue board of frontend/src/Views/Board.tsx: the immer reducer      *)
(* dragReducer, the module-level counter, list names and `test` container, *)
(* and the three UI handlers of App (drag end, Add Issue List, Add Issue). *)
(***************************************************************************)
EXTENDS Integers, Sequences, FiniteSets, TLC

VARIABLES
    state,            \* the useReducer state of App (Board.tsx:84)
    issueIdIncrement, \* module-level counter (Board.tsx:79)
    issueListsNames,  \* module-level list names (Board.tsx:80)
    test,             \* module-level container (Board.tsx:201), a sparse array
    mounted,          \* FALSE once a reducer or a render threw: React unmounts App
    last,             \* history: the last interaction, its dispatches, the state before it
    issued,           \* history: the ids ADDITEM has handed out, oldest first
    login,            \* the Login view (Login.tsx): error flag, route, running clicks
    server            \* the backend: the user collection and the requests in progress

boardVars == <<state, issueIdIncrement, issueListsNames, test, mounted, last, issued>>

vars == <<state, issueIdIncrement, issueListsNames, test, mounted, last, issued,
          login, server>>

(* ------------------------------ bounds --------------------------------- *)

\* issueIdIncrement is not raised beyond this value
MaxCounter == 10
\* a drag is not taken when the list it drops on already holds this many entries
MaxLen == 2
\* the free-standing MOVE actions take fromIndex in -1..MaxIndex and toIndex in
\* 0..MaxIndex
MaxIndex == 3
\* how many login clicks one visit of the Login view makes
MaxClicks == 3
\* how many requests the backend receives
MaxRequests == 3
\* the boards the free-standing MOVE actions start from hold up to PoolSize issues
PoolSize == 3

(* --------------------------- JavaScript values -------------------------- *)

Undefined == [type |-> "undefined"]
Null == [type |-> "null"]
Arr(s) == [type |-> "array", elems |-> s]
Obj(m) == [type |-> "object", props |-> m]
Issue(id, content) == [type |-> "issue", id |-> id, content |-> content]

Max(a, b) == IF a > b THEN a ELSE b
Min(a, b) == IF a < b THEN a ELSE b

\* v[k] for a string key k: a property of an object, undefined on anything else
\* (an array has no property named by a non-index key)
Get(v, k) == IF v.type = "object" /\ k \in DOMAIN v.props THEN v.props[k] ELSE Undefined

\* v[k] = x on an object
Put(v, k, x) == Obj((k :> x) @@ v.props)

\* v || []
OrEmpty(v) == IF v.type \in {"undefined", "null"} THEN Arr(<<>>) ELSE v

\* the entries of v when v is an array, none otherwise (mapItem?.map, length)
Elems(v) == IF v.type = "array" THEN v.elems ELSE <<>>

\* Array.prototype.splice(start, deleteCount, ...items) on the 0-based array s
Splice(s, start, deleteCount, items) ==
    LET len == Len(s)
        a == IF start < 0 THEN Max(len + start, 0) ELSE Min(start, len)
        d == Min(Max(deleteCount, 0), len - a)
    IN [removed |-> SubSeq(s, a + 1, a + d),
        result |-> SubSeq(s, 1, a) \o items \o SubSeq(s, a + d + 1, len)]

\* test[i] of the sparse module-level array
TestGet(t, i) == IF i \in DOMAIN t THEN t[i] ELSE Undefined

(* ------------------------------ constants ------------------------------- *)

data ==
    << Issue("1", "This list is buggy"),
       Issue("2", "I hate lists like this..."),
       Issue("3", "Why would react do this to me"),
       Issue("4", "HAMBURGER PLEAAAAAAAAAAAAAAAASE") >>

initialState == Obj("items" :> Arr(data))

InitialCounter == 6

InitialNames == <<"items", "items2", "items3">>

\* the Login view before any click: useState(false), no navigation yet
LoginViewInit == [error |-> FALSE, route |-> "/", clicks |-> <<>>]

\* the backend before any request: an empty user collection
ServerInit == [users |-> <<>>, reqs |-> <<>>]

\* the module-level variables a reducer call reads and writes
Globals == [test |-> test, issueIdIncrement |-> issueIdIncrement,
            issueListsNames |-> issueListsNames]

(* ------------------------------ dragReducer ----------------------------- *)

Result(st, g, threw) == [state |-> st, g |-> g, threw |-> threw]

\* ReduceMOVE with the splice of line 34 deleting nothing: the issue is copied
ReduceMOVE_Copy(g, st, action) ==
    IF st.type # "object"
    THEN Result(st, g, TRUE)
    ELSE LET s1 == Put(st, action.from, OrEmpty(Get(st, action.from)))
             s2 == Put(s1, action.to, OrEmpty(Get(s1, action.to)))
             sp == Splice(Elems(Get(s2, action.from)), action.fromIndex, 1, <<>>)
             removed == IF Len(sp.removed) = 0 THEN Undefined ELSE sp.removed[1]
             ins == Splice(Elems(Get(s2, action.to)), action.toIndex, 0, <<removed>>)
             s4 == Put(s2, action.to, Arr(ins.result))
         IN Result(s4, g, FALSE)

\* ReduceMOVE with the issue always pushed to the end of the target list
ReduceMOVE_Push(g, st, action) ==
    IF st.type # "object"
    THEN Result(st, g, TRUE)
    ELSE LET s1 == Put(st, action.from, OrEmpty(Get(st, action.from)))
             s2 == Put(s1, action.to, OrEmpty(Get(s1, action.to)))
             sp == Splice(Elems(Get(s2, action.from)), action.fromIndex, 1, <<>>)
             removed == IF Len(sp.removed) = 0 THEN Undefined ELSE sp.removed[1]
             s3 == Put(s2, action.from, Arr(sp.result))
             s4 == Put(s3, action.to, Arr(Append(Elems(Get(s3, action.to)), removed)))
         IN Result(s4, g, FALSE)

ReduceMOVE(g, st, action) ==
    IF st.type # "object"
    THEN \* the state is the array UPDATE or UPDATELISTS returned: immer refuses
         \* to set a property that is no index on an array draft. No drag
         \* reaches this: nothing of an array state is rendered as draggable.
         Result(st, g, TRUE)
    ELSE LET s1 == Put(st, action.from, OrEmpty(Get(st, action.from)))
             s2 == Put(s1, action.to, OrEmpty(Get(s1, action.to)))
             sp == Splice(Elems(Get(s2, action.from)), action.fromIndex, 1, <<>>)
             removed == IF Len(sp.removed) = 0 THEN Undefined ELSE sp.removed[1]
             s3 == Put(s2, action.from, Arr(sp.result))
             ins == Splice(Elems(Get(s3, action.to)), action.toIndex, 0, <<removed>>)
             s4 == Put(s3, action.to, Arr(ins.result))
         IN Result(s4, g, FALSE)

\* ReduceADDITEM taking the new id from the length of the list, not the counter
ReduceADDITEM_LengthId(g, st, action) ==
    LET copied == IF action.myData.type = "array" /\ Len(action.myData.elems) > 0
                  THEN action.myData.elems ELSE <<>>
        n == g.issueIdIncrement + 1
        fresh == Issue(ToString(Len(copied) + 1), "Test" \o ToString(Len(copied) + 1))
        t1 == (action.myIndex :> Arr(Append(copied, fresh))) @@ g.test
        wird == Obj("items" :> TestGet(t1, 0) @@ "items2" :> TestGet(t1, 1)
                    @@ "items3" :> TestGet(t1, 2))
    IN Result(wird, [g EXCEPT !.test = t1, !.issueIdIncrement = n], FALSE)

\* ReduceADDITEM without the increment of line 48
ReduceADDITEM_NoIncrement(g, st, action) ==
    LET copied == IF action.myData.type = "array" /\ Len(action.myData.elems) > 0
                  THEN action.myData.elems ELSE <<>>
        n == g.issueIdIncrement
        fresh == Issue(ToString(n), "Test" \o ToString(n))
        t1 == (action.myIndex :> Arr(Append(copied, fresh))) @@ g.test
        wird == Obj("items" :> TestGet(t1, 0) @@ "items2" :> TestGet(t1, 1)
                    @@ "items3" :> TestGet(t1, 2))
    IN Result(wird, [g EXCEPT !.test = t1], FALSE)

ReduceADDITEM(g, st, action) ==
    LET copied == IF action.myData.type = "array" /\ Len(action.myData.elems) > 0
                  THEN action.myData.elems ELSE <<>>
        n == g.issueIdIncrement + 1
        fresh == Issue(ToString(n), "Test" \o ToString(n))
        t1 == (action.myIndex :> Arr(Append(copied, fresh))) @@ g.test
        wird == Obj("items" :> TestGet(t1, 0) @@ "items2" :> TestGet(t1, 1)
                    @@ "items3" :> TestGet(t1, 2))
    IN Result(wird, [g EXCEPT !.test = t1, !.issueIdIncrement = n], FALSE)

ReduceUPDATE(g, st, action) ==
    LET t1 == (0 :> action.myData1) @@ (1 :> action.myData2)
              @@ (2 :> action.myData3) @@ g.test
        names == g.issueListsNames
    IN Result(Arr([i \in 1..Len(names) |-> Obj(names[i] :> TestGet(t1, 0))]),
              [g EXCEPT !.test = t1], FALSE)

ReduceUPDATELISTS(g, st, action) ==
    LET names == g.issueListsNames
    IN Result(Arr([i \in 1..Len(names) |-> Obj(names[i] :> Get(st, names[i]))]),
              g, FALSE)

dragReducer(g, st, action) ==
    CASE action.type = "MOVE" -> ReduceMOVE(g, st, action)
      [] action.type = "ADDITEM" -> ReduceADDITEM(g, st, action)
      [] action.type = "UPDATE" -> ReduceUPDATE(g, st, action)
      [] action.type = "UPDATELISTS" -> ReduceUPDATELISTS(g, st, action)
      [] OTHER -> Result(st, g, TRUE)

(* ------------------------------ the handlers ---------------------------- *)

\* A world is the reducer state, the module-level variables, whether a reducer
\* threw, and the actions dispatched so far by the running handler.
World == [state |-> state, g |-> Globals, threw |-> FALSE, log |-> <<>>]

\* dispatch(action) of useReducer: the reducer runs on the latest state
dispatch(w, action) ==
    IF w.threw
    THEN [w EXCEPT !.log = Append(@, action)]
    ELSE LET r == dragReducer(w.g, w.state, action)
         IN [state |-> r.state, g |-> r.g, threw |-> r.threw,
             log |-> Append(w.log, action)]

\* the drag-end handler without the test of result.reason
useCallback_AnyReason(w, result) ==
    IF result.destination = Null
    THEN w
    ELSE dispatch(w, [type |-> "MOVE",
                      from |-> result.source.droppableId,
                      to |-> result.destination.droppableId,
                      fromIndex |-> result.source.index,
                      toIndex |-> result.destination.index])

\* the drag-end handler
useCallback(w, result) ==
    IF result.reason = "DROP"
    THEN IF result.destination = Null
         THEN w
         ELSE dispatch(w, [type |-> "MOVE",
                           from |-> result.source.droppableId,
                           to |-> result.destination.droppableId,
                           fromIndex |-> result.source.index,
                           toIndex |-> result.destination.index])
    ELSE w

\* the Add Issue List handler reading the counter without raising it
AddIssueListOnClick_NoIncrement(w) ==
    LET name == "items" \o ToString(w.g.issueIdIncrement)
        g1 == [w.g EXCEPT !.issueListsNames = Append(@, name)]
    IN dispatch([w EXCEPT !.g = g1], [type |-> "UPDATELISTS", me |-> w.state])

\* onClick of the Add Issue List button
AddIssueListOnClick(w) ==
    LET name == "items" \o ToString(w.g.issueIdIncrement)
        g1 == [w.g EXCEPT !.issueListsNames = Append(@, name),
                          !.issueIdIncrement = @ + 1]
    IN dispatch([w EXCEPT !.g = g1], [type |-> "UPDATELISTS", me |-> w.state])

\* the Add Issue handler without its UPDATE dispatch
AddIssueOnClick_NoUpdate(w, index) ==
    dispatch(w, [type |-> "ADDITEM", pass |-> "items", myIndex |-> 0,
                 myData |-> Get(w.state, "items")])

\* onClick of the Add Issue button rendered in the list at position index
AddIssueOnClick(w, index) ==
    LET st == w.state
        w1 == dispatch(w, [type |-> "UPDATE",
                           myData1 |-> Get(st, "items"),
                           myData2 |-> Get(st, "items2"),
                           myData3 |-> Get(st, "items3")])
    IN dispatch(w1, [type |-> "ADDITEM", pass |-> "items", myIndex |-> 0,
                     myData |-> Get(st, "items")])

(* ------------------------------ rendering ------------------------------- *)

\* droppableId of the list rendered at 0-based position index
DroppableId(index) == "items" \o ToString(index)

\* the entries React renders for the list at 0-based position index
Shown(st, names, index) == Elems(Get(st, names[index + 1]))

\* arrangeIssueInList reads issue.id: it throws on an undefined entry
RenderThrows(st, names) ==
    \E i \in 0..(Len(names) - 1) :
        \E k \in 1..Len(Shown(st, names, i)) : Shown(st, names, i)[k].type # "issue"

(* ------------------------------ the board UI ---------------------------- *)

NoInfo == [src |-> -1, dst |-> -1, button |-> -1, reason |-> "",
           origin |-> Undefined, first |-> Undefined]

Init ==
    /\ state = initialState
    /\ issueIdIncrement = InitialCounter
    /\ issueListsNames = InitialNames
    /\ test = <<>>
    /\ mounted = TRUE
    /\ last = [op |-> "init", before |-> initialState, dispatched |-> <<>>,
               threw |-> FALSE, info |-> NoInfo]
    /\ issued = <<>>
    /\ login = LoginViewInit
    /\ server = ServerInit

\* the ids of the issues the ADDITEM actions of a handler's log pushed: each is
\* the last entry of test[myIndex] (Board.tsx:49-52)
NewIds(w) ==
    IF w.threw THEN <<>>
    ELSE LET adds == SelectSeq(w.log, LAMBDA a : a.type = "ADDITEM")
         IN [i \in 1..Len(adds) |->
               LET l == Elems(TestGet(w.g.test, adds[i].myIndex)) IN l[Len(l)].id]

\* the handler's outcome becomes the next state; React renders it
Commit(op, w, info) ==
    /\ state' = w.state
    /\ issueIdIncrement' = w.g.issueIdIncrement
    /\ issueListsNames' = w.g.issueListsNames
    /\ test' = w.g.test
    /\ mounted' = (~w.threw /\ ~RenderThrows(w.state, w.g.issueListsNames))
    /\ last' = [op |-> op, before |-> state, dispatched |-> w.log,
                threw |-> w.threw, info |-> info]
    /\ issued' = issued \o NewIds(w)
    /\ UNCHANGED <<login, server>>

\* the drags react-beautiful-dnd can report for what is rendered: an issue
\* of a rendered list is picked up, and is dropped nowhere or at a position of
\* a rendered list
Place(index, k) == [droppableId |-> DroppableId(index), index |-> k, pos |-> index]

DragResults ==
    LET n == Len(issueListsNames)
        len(i) == Len(Shown(state, issueListsNames, i))
        Sources == UNION {{Place(i, k) : k \in 0..(len(i) - 1)} : i \in 0..(n - 1)}
        Dests(s) == UNION {{Place(i, k) :
                              k \in 0..(IF i = s.pos THEN len(i) - 1 ELSE len(i))} :
                           i \in 0..(n - 1)}
    IN UNION {{[reason |-> r, source |-> s, destination |-> d] :
                  r \in {"DROP", "CANCEL"}, d \in {Null} \cup Dests(s)} :
              s \in Sources}

OnDragEnd ==
    /\ mounted
    /\ \E result \in DragResults :
          /\ result.destination # Null
               => Len(Elems(Get(state, result.destination.droppableId))) < MaxLen
          /\ Commit("drag", useCallback(World, result),
                    [NoInfo EXCEPT !.src = result.source.pos,
                                   !.dst = IF result.destination = Null THEN -1
                                           ELSE result.destination.pos,
                                   !.reason = result.reason])

AddIssueList ==
    /\ mounted
    /\ issueIdIncrement < MaxCounter
    /\ Commit("addList", AddIssueListOnClick(World), NoInfo)

AddIssue ==
    /\ mounted
    /\ issueIdIncrement < MaxCounter
    /\ \E index \in 0..(Len(issueListsNames) - 1) :
          Commit("addIssue", AddIssueOnClick(World, index),
                 [NoInfo EXCEPT !.button = index])

Next == OnDragEnd \/ AddIssueList \/ AddIssue

Spec == Init /\ [][Next]_vars

(* ---------------- the reducer on its own: MOVE as a function ------------ *)

\* the issues of the boards a free-standing MOVE starts from
Pool == {Issue(ToString(i), "Test" \o ToString(i)) : i \in 1..PoolSize}

\* the sequences over Pool without repetition
RECURSIVE Injective(_)
Injective(n) ==
    IF n = 0 THEN {<<>>}
    ELSE LET prev == Injective(n - 1)
             Range(t) == {t[i] : i \in 1..Len(t)}
         IN prev \cup
            UNION {{Append(t, x) : x \in Pool \ Range(t)} :
                   t \in {u \in prev : Len(u) = n - 1}}

\* boards of the lists items and items2 in which no issue occurs twice; items2
\* may be the undefined that ADDITEM leaves for a list nothing was put in
Boards ==
    UNION {UNION {{Obj("items" :> Arr(SubSeq(s, 1, k)) @@ "items2" :> v) :
                      v \in {Arr(SubSeq(s, k + 1, Len(s)))} \cup
                            (IF k = Len(s) THEN {Undefined} ELSE {})} :
                  k \in 0..Len(s)} :
           s \in Injective(PoolSize)}

\* list names a free-standing MOVE names: two lists of the board and one absent
MoveKeys == {"items", "items2", "items0"}

InitReducer ==
    /\ state \in Boards
    /\ issueIdIncrement = InitialCounter
    /\ issueListsNames = InitialNames
    /\ test = <<>>
    /\ mounted = TRUE
    /\ last = [op |-> "input", before |-> state, dispatched |-> <<>>,
               threw |-> FALSE, info |-> NoInfo]
    /\ issued = <<>>
    /\ login = LoginViewInit
    /\ server = ServerInit

\* dragReducer(state, action) for one action, outside React
Apply(op, action) ==
    LET w == dispatch(World, action)
    IN /\ state' = w.state
       /\ issueIdIncrement' = w.g.issueIdIncrement
       /\ issueListsNames' = w.g.issueListsNames
       /\ test' = w.g.test
       /\ mounted' = mounted
       /\ last' = [op |-> op, before |-> state, dispatched |-> w.log,
                   threw |-> w.threw, info |-> NoInfo]
       /\ issued' = issued \o NewIds(w)
       /\ UNCHANGED <<login, server>>

ApplyMove ==
    /\ last.op = "input"
    /\ \E from \in MoveKeys, to \in MoveKeys,
          fromIndex \in -1..MaxIndex, toIndex \in 0..MaxIndex :
          Apply("MOVE", [type |-> "MOVE", from |-> from, to |-> to,
                         fromIndex |-> fromIndex, toIndex |-> toIndex])

\* the MOVE that takes the issue back: from and to, fromIndex and toIndex swapped
MoveBack(m) == [type |-> "MOVE", from |-> m.to, to |-> m.from,
                fromIndex |-> m.toIndex, toIndex |-> m.fromIndex]

\* dragReducer applied to the result of a MOVE, with the MOVE back
ApplyMoveBack ==
    /\ last.op = "MOVE"
    /\ LET w == dispatch(World, MoveBack(last.dispatched[1]))
       IN /\ state' = w.state
          /\ issueIdIncrement' = w.g.issueIdIncrement
          /\ issueListsNames' = w.g.issueListsNames
          /\ test' = w.g.test
          /\ last' = [op |-> "MOVEBACK", before |-> state,
                      dispatched |-> last.dispatched \o w.log, threw |-> w.threw,
                      info |-> [NoInfo EXCEPT !.origin = last.before]]
          /\ UNCHANGED <<mounted, issued, login, server>>

\* the sequences a free-standing UPDATE or ADDITEM supplies: nothing, the empty
\* sequence, or one issue
SuppliedData == {Undefined} \cup {Arr(s) : s \in Injective(1)}

ApplyUpdate ==
    /\ last.op = "input"
    /\ \E d1 \in SuppliedData, d2 \in SuppliedData, d3 \in SuppliedData :
          Apply("UPDATE", [type |-> "UPDATE", myData1 |-> d1, myData2 |-> d2,
                           myData3 |-> d3])

ApplyAddItem ==
    /\ last.op = "input"
    /\ \E d \in SuppliedData \cup {Get(state, "items")} :
          Apply("ADDITEM", [type |-> "ADDITEM", pass |-> "items", myIndex |-> 0,
                            myData |-> d])

\* dragReducer applied a second time to the same state and the same action
ApplyAgain ==
    /\ last.op \in {"UPDATE", "ADDITEM"}
    /\ LET w == dispatch([World EXCEPT !.state = last.before], last.dispatched[1])
       IN /\ state' = w.state
          /\ issueIdIncrement' = w.g.issueIdIncrement
          /\ issueListsNames' = w.g.issueListsNames
          /\ test' = w.g.test
          /\ last' = [op |-> "AGAIN", before |-> last.before,
                      dispatched |-> last.dispatched \o w.log, threw |-> w.threw,
                      info |-> [NoInfo EXCEPT !.first = state]]
          /\ issued' = issued \o NewIds(w)
          /\ UNCHANGED <<mounted, login, server>>

NextReducer == ApplyMove \/ ApplyMoveBack \/ ApplyUpdate \/ ApplyAddItem \/ ApplyAgain

SpecReducer == InitReducer /\ [][NextReducer]_vars

(* ------------------------- helpers of the properties -------------------- *)

\* the lists of a state: of an object its properties, of an array of
\* single-entry objects the property of each entry
ListsOf(st) ==
    IF st.type = "object"
    THEN {<<k, st.props[k]>> : k \in DOMAIN st.props}
    ELSE IF st.type = "array"
    THEN UNION {{<<i, k, st.elems[i].props[k]>> : k \in DOMAIN st.elems[i].props} :
                i \in 1..Len(st.elems)}
    ELSE {}

\* where the issue with this id occurs: the list and the position in it
Occurrences(st, id) ==
    UNION {{<<l, p>> : p \in {q \in 1..Len(Elems(l[Len(l)])) :
                                 /\ Elems(l[Len(l)])[q].type = "issue"
                                 /\ Elems(l[Len(l)])[q].id = id}} :
           l \in ListsOf(st)}

IdsOf(st) ==
    UNION {{Elems(l[Len(l)])[q].id :
               q \in {r \in 1..Len(Elems(l[Len(l)])) : Elems(l[Len(l)])[r].type = "issue"}} :
           l \in ListsOf(st)}

RECURSIVE SumLen(_)
SumLen(ls) ==
    IF ls = {} THEN 0
    ELSE LET l == CHOOSE x \in ls : TRUE
         IN Len(Elems(l[Len(l)])) + SumLen(ls \ {l})

\* the number of entries summed over all lists
TotalCount(st) == SumLen(ListsOf(st))

\* the MOVE action the last step applied
LastMove == last.dispatched[1]

IsMove == last.op \in {"MOVE", "drag"} /\ Len(last.dispatched) = 1

\* fromIndex is an index into the sequence list `from` held before the MOVE
FromIndexValid ==
    /\ LastMove.fromIndex >= 0
    /\ LastMove.fromIndex < Len(Elems(Get(last.before, LastMove.from)))

\* s without its 0-based entry i; s with x put in at 0-based position i
RemoveAt(s, i) == [k \in 1..(Len(s) - 1) |-> IF k <= i THEN s[k] ELSE s[k + 1]]
InsertAt(s, i, x) ==
    [k \in 1..(Len(s) + 1) |-> IF k <= i THEN s[k] ELSE IF k = i + 1 THEN x ELSE s[k - 1]]

(* -------------------------------- C1 ------------------------------------ *)

\* C1: in every board state the UI's actions reach, every issue id occurs in
\* at most one list and at most once in that list.
C1_IssueIdsUnique ==
    \A id \in IdsOf(state) : Cardinality(Occurrences(state, id)) <= 1

\* a drag's MOVE, after an Add Issue, has acted on a board of five issues
C1_Witness ==
    /\ last.op = "drag" /\ Len(last.dispatched) = 1
    /\ Cardinality(IdsOf(state)) = 5
    /\ Cardinality(ListsOf(state)) >= 2

(* -------------------------------- C2 ------------------------------------ *)

\* C2: a MOVE whose fromIndex is a valid index into list `from` leaves the
\* total number of issues, summed over all lists, as it was.
C2_MovePreservesCount ==
    (IsMove /\ FromIndexValid) => TotalCount(state) = TotalCount(last.before)

\* an issue has moved from one list of three issues to another list
C2_Witness ==
    /\ IsMove /\ FromIndexValid
    /\ LastMove.from # LastMove.to
    /\ TotalCount(last.before) = 3
    /\ Len(Elems(Get(state, LastMove.to))) >= 2

(* -------------------------------- C3 ------------------------------------ *)

\* the issue a valid MOVE takes out, the list it leaves behind, and the list
\* it is put into (the list left behind when from = to)
MovedIssue == Elems(Get(last.before, LastMove.from))[LastMove.fromIndex + 1]
SourceRest == RemoveAt(Elems(Get(last.before, LastMove.from)), LastMove.fromIndex)
TargetBefore ==
    IF LastMove.from = LastMove.to THEN SourceRest
    ELSE Elems(Get(last.before, LastMove.to))

\* everything C3 says of a valid MOVE but the position the issue lands on
MoveFrame ==
    /\ ~last.threw
    /\ state.type = "object"
    /\ LastMove.from # LastMove.to => Get(state, LastMove.from) = Arr(SourceRest)
    /\ Len(Elems(Get(state, LastMove.to))) = Len(TargetBefore) + 1
    /\ DOMAIN state.props = DOMAIN last.before.props \cup {LastMove.from, LastMove.to}
    /\ \A k \in DOMAIN last.before.props \ {LastMove.from, LastMove.to} :
          state.props[k] = last.before.props[k]

C4_FreshIds ==
    /\ \A i, j \in 1..Len(issued) : i # j => issued[i] # issued[j]
    /\ last.op = "addIssue" =>
          /\ Len(issued) > 0
          /\ issued[Len(issued)] \notin IdsOf(last.before)
          /\ issued[Len(issued)] = ToString(issueIdIncrement)

\* a third issue was added, with a list added in between
C4_Witness ==
    /\ last.op = "addIssue"
    /\ Len(issued) >= 3
    /\ Len(issueListsNames) > Len(InitialNames)
    /\ Cardinality(IdsOf(last.before)) > 0

(* -------------------------------- C5 ------------------------------------ *)

\* the counter value k < issueIdIncrement whose name "items" + k is `name`
HasCounter(name, k) == name = "items" \o ToString(k)

\* C5: the list names are pairwise distinct, and each generated name carries
\* a counter value greater than that of every name generated before it.
C5_ListNamesUnique ==
    /\ \A i, j \in 1..Len(issueListsNames) :
          i # j => issueListsNames[i] # issueListsNames[j]
    /\ \A j \in (Len(InitialNames) + 1)..Len(issueListsNames) :
          \E k \in InitialCounter..(issueIdIncrement - 1) :
             /\ HasCounter(issueListsNames[j], k)
             /\ \A i \in (Len(InitialNames) + 1)..(j - 1) :
                   \E h \in InitialCounter..(k - 1) : HasCounter(issueListsNames[i], h)

\* two lists were added with an Add Issue click between them
C5_Witness ==
    /\ last.op = "addList"
    /\ Len(issueListsNames) >= Len(InitialNames) + 2
    /\ Len(issued) >= 1
    /\ \E k \in InitialCounter..issueIdIncrement :
          /\ HasCounter(issueListsNames[Len(issueListsNames) - 1], k)
          /\ ~HasCounter(issueListsNames[Len(issueListsNames)], k + 1)

(* -------------------------------- C6 ------------------------------------ *)

\* C6: an Add Issue List click adds one list, new to the board and empty, and
\* looking up any earlier list name in the state yields the sequence that
\* list held before the click.
C6_AddListKeepsLists ==
    last.op = "addList" =>
        /\ issueListsNames[Len(issueListsNames)] \notin DOMAIN last.before.props
        /\ Len(Elems(Get(state, issueListsNames[Len(issueListsNames)]))) = 0
        /\ \A i \in 1..(Len(issueListsNames) - 1) :
              Get(state, issueListsNames[i]) = Get(last.before, issueListsNames[i])

(* -------------------------------- C7 ------------------------------------ *)

\* the list whose Add Issue button the last click was on
ClickedList == issueListsNames[last.info.button + 1]

\* C7: an Add Issue click on the button of list L appends exactly one new
\* issue to the end of L, keeps L's earlier issues in order and leaves every
\* other list as it was, whichever list's button was clicked.
C7_AddIssueAppendsToClickedList ==
    last.op = "addIssue" =>
        LET old == Elems(Get(last.before, ClickedList))
            new == Elems(Get(state, ClickedList))
        IN /\ Len(new) = Len(old) + 1
           /\ SubSeq(new, 1, Len(old)) = old
           /\ new[Len(new)].type = "issue"
           /\ new[Len(new)].id \notin IdsOf(last.before)
           /\ \A i \in 1..Len(issueListsNames) :
                 issueListsNames[i] # ClickedList =>
                    Elems(Get(state, issueListsNames[i]))
                      = Elems(Get(last.before, issueListsNames[i]))

(* -------------------------------- C8 ------------------------------------ *)

\* C8: a MOVE whose fromIndex is out of range for list `from`, or whose `from`
\* names no list, fails with an error and leaves the board as it was: no
\* undefined entry is put into `to` and no list is created.
C8_BadMoveFails ==
    (IsMove /\ ~FromIndexValid) => (last.threw /\ state = last.before)

(* -------------------------------- C9 ------------------------------------ *)

\* C9: the MOVE a drag end dispatches names, as `from` and `to`, the store's
\* names of the lists the issue was dragged from and dropped on, and its
\* fromIndex is a valid index into the store's sequence for `from`.
C9_DragMoveWellFormed ==
    (last.op = "drag" /\ Len(last.dispatched) = 1) =>
        /\ LastMove.from = issueListsNames[last.info.src + 1]
        /\ LastMove.to = issueListsNames[last.info.dst + 1]
        /\ FromIndexValid

(* -------------------------------- C10 ----------------------------------- *)

\* C10: initially and after every action the state is a mapping from list
\* name to issue sequence in which every current list name maps to a sequence
\* of issues, never to a missing value; the state is never a list of
\* single-entry mappings.
C10_StateIsMapping ==
    /\ state.type = "object"
    /\ \A i \in 1..Len(issueListsNames) :
          /\ Get(state, issueListsNames[i]).type = "array"
          /\ \A k \in 1..Len(Elems(Get(state, issueListsNames[i]))) :
                Elems(Get(state, issueListsNames[i]))[k].type = "issue"

(* -------------------------------- C11 ----------------------------------- *)

\* the last interaction was a drag that ended without a destination or for a
\* reason other than a drop
DragWithoutDrop ==
    last.op = "drag" /\ (last.info.dst = -1 \/ last.info.reason # "DROP")

\* C11: a drag that ends with no destination, or for a reason other than a
\* drop, dispatches no action and leaves the board state unchanged.
C11_NoDropNoDispatch ==
    DragWithoutDrop => (last.dispatched = <<>> /\ state = last.before /\ ~last.threw)

\* a drag of a board of five issues was cancelled over a list
C11_Witness ==
    /\ DragWithoutDrop
    /\ last.info.reason = "CANCEL"
    /\ last.info.dst >= 0
    /\ Cardinality(IdsOf(state)) = 5

(* -------------------------------- C12 ----------------------------------- *)

\* the first of the two MOVE actions of a round trip, and the state it started from
FirstMove == last.dispatched[1]
Origin == last.info.origin

IsRoundTrip == last.op = "MOVEBACK" /\ Len(last.dispatched) = 2

\* fromIndex of the first MOVE is an index into list `from` of the origin
FirstFromIndexValid ==
    /\ FirstMove.fromIndex >= 0
    /\ FirstMove.fromIndex < Len(Elems(Get(Origin, FirstMove.from)))

\* `to` names a list of the origin and toIndex is a position of it: at most
\* the length `to` has once the issue is taken out of `from`
FirstToIndexValid ==
    /\ Get(Origin, FirstMove.to).type = "array"
    /\ FirstMove.toIndex >= 0
    /\ FirstMove.toIndex <=
         (IF FirstMove.from = FirstMove.to
          THEN Len(Elems(Get(Origin, FirstMove.to))) - 1
          ELSE Len(Elems(Get(Origin, FirstMove.to))))

C13_MoveInPlace ==
    (/\ IsMove /\ FromIndexValid
     /\ LastMove.from = LastMove.to
     /\ LastMove.fromIndex = LastMove.toIndex) => state = last.before

\* the middle issue of a list of three was moved onto its own position
C13_Witness ==
    /\ IsMove /\ FromIndexValid
    /\ LastMove.from = LastMove.to
    /\ LastMove.fromIndex = 1 /\ LastMove.toIndex = 1
    /\ Len(Elems(Get(last.before, LastMove.from))) = 3

(* -------------------------------- C14 ----------------------------------- *)

\* what a state holds for a list name: the property of an object, or the
\* value of the single-entry object of that name in an array of them
Lookup(st, name) ==
    IF st.type = "array"
    THEN LET hit == {i \in 1..Len(st.elems) : name \in DOMAIN st.elems[i].props}
         IN IF hit = {} THEN Undefined
            ELSE st.elems[CHOOSE i \in hit : TRUE].props[name]
    ELSE Get(st, name)

\* C14: after UPDATE with the sequences d1, d2, d3 the first, the second and
\* the third list each hold their own supplied sequence.
C14_UpdateReplacesEachList ==
    (/\ last.op = "UPDATE" /\ ~last.threw
     /\ last.dispatched[1].myData1.type = "array"
     /\ last.dispatched[1].myData2.type = "array"
     /\ last.dispatched[1].myData3.type = "array") =>
        /\ Lookup(state, issueListsNames[1]) = last.dispatched[1].myData1
        /\ Lookup(state, issueListsNames[2]) = last.dispatched[1].myData2
        /\ Lookup(state, issueListsNames[3]) = last.dispatched[1].myData3

(* -------------------------------- C15 ----------------------------------- *)

\* C15: the same action applied to the same state a second time gives the
\* result it gave the first time.
C15_Deterministic ==
    last.op = "AGAIN" => state = last.info.first

(* -------------------------------- C16 ----------------------------------- *)

\* the last step was a user interaction the claim counts: a drag dropped on a
\* list, an Add Issue List click or an Add Issue click
IsInteraction ==
    \/ last.op = "drag" /\ ~DragWithoutDrop
    \/ last.op \in {"addList", "addIssue"}

\* the types of the actions the last interaction dispatched, in order
DispatchedTypes == [i \in 1..Len(last.dispatched) |-> last.dispatched[i].type]

\* C16 as stated: each user interaction dispatches exactly one action.
C16_Original == IsInteraction => Len(last.dispatched) = 1

\* C16 (amended): a completed drag dispatches exactly one action (MOVE) and
\* an Add Issue List click exactly one (UPDATELISTS); an Add Issue click
\* dispatches two, UPDATE and then ADDITEM. The handler's dispatches are all
\* reduced before the next interaction is taken.
C16_DispatchesPerInteraction ==
    /\ (last.op = "drag" /\ ~DragWithoutDrop) => DispatchedTypes = <<"MOVE">>
    /\ last.op = "addList" => DispatchedTypes = <<"UPDATELISTS">>
    /\ last.op = "addIssue" =>
          /\ DispatchedTypes = <<"UPDATE", "ADDITEM">>
          /\ state.type = "object"
          /\ issued # <<>>
          /\ Elems(Get(state, "items")) # <<>>
          /\ Elems(Get(state, "items"))[Len(Elems(Get(state, "items")))].id
               = issued[Len(issued)]

\* an Add Issue click on the second list after a drag and an added list
C16_Witness ==
    /\ last.op = "addIssue"
    /\ last.info.button = 1
    /\ Len(last.dispatched) = 2
    /\ Len(issueListsNames) > Len(InitialNames)
    /\ Len(issued) >= 2

(* ------------------------------------------------------------------------ *)
(* The Login view (Login.tsx). A click runs an async handler: it is split   *)
(* at its two awaits, and the handlers of several clicks may interleave.    *)
(* ------------------------------------------------------------------------ *)

\* a login click that has just run up to `await authenticateMe(...)`
NewClick == [pc |-> "authenticateMe", auth |-> "pending", navigated |-> FALSE,
             errorSet |-> FALSE, errorAtNavigate |-> FALSE,
             failedSince |-> FALSE]

\* every running or finished click learns that a click failed after it began
NoteFailure(clicks) ==
    [j \in 1..Len(clicks) |-> [clicks[j] EXCEPT !.failedSince = TRUE]]

\* the useEffect of the view: jwtSet() ? navigate('/board') : navigate('/')
useEffect(l, jwtSet) == [l EXCEPT !.route = IF jwtSet THEN "/board" ELSE "/"]

\* the onClick handler up to its first await: setError(false),
\* preventDefault, the call of authenticateMe
onClick(l) == [l EXCEPT !.error = FALSE, !.clicks = Append(@, NewClick)]

\* the handler that navigates whatever authenticateMe returned
onAuthenticated_Always(l, i, ok) ==
    [l EXCEPT !.clicks[i].pc = "bordMainSetup",
              !.clicks[i].auth = IF ok THEN "ok" ELSE "fail"]

\* the handler resumed with the result of authenticateMe: on success it goes
\* on to `await bordMainSetup(0)`, on failure it does setError(true), alert
onAuthenticated(l, i, ok) ==
    IF ok
    THEN [l EXCEPT !.clicks[i].pc = "bordMainSetup", !.clicks[i].auth = "ok"]
    ELSE [l EXCEPT !.error = TRUE,
                   !.clicks = [NoteFailure(@) EXCEPT
                                 ![i].pc = "done", ![i].auth = "fail",
                                 ![i].errorSet = TRUE]]

\* the handler resumed after bordMainSetup: navigate('/board'); a rejected
\* promise ends the handler before the navigation
onBoardSetup(l, i, resolved) ==
    IF resolved
    THEN [l EXCEPT !.route = "/board", !.clicks[i].pc = "done",
                   !.clicks[i].navigated = TRUE,
                   !.clicks[i].errorAtNavigate = l.error]
    ELSE [l EXCEPT !.clicks[i].pc = "done"]

\* the view is mounted; its effect has run with either answer of jwtSet()
InitLogin ==
    /\ state = initialState
    /\ issueIdIncrement = InitialCounter
    /\ issueListsNames = InitialNames
    /\ test = <<>>
    /\ mounted = TRUE
    /\ last = [op |-> "init", before |-> initialState, dispatched |-> <<>>,
               threw |-> FALSE, info |-> NoInfo]
    /\ issued = <<>>
    /\ \E jwtSet \in BOOLEAN : login = useEffect(LoginViewInit, jwtSet)
    /\ server = ServerInit

\* the user clicks Login while the Login view is the one shown
LoginClick ==
    /\ login.route = "/"
    /\ Len(login.clicks) < MaxClicks
    /\ login' = onClick(login)
    /\ UNCHANGED <<boardVars, server>>

\* authenticateMe of a running click returns true or false
AuthenticateMeReturns ==
    \E i \in 1..Len(login.clicks), ok \in BOOLEAN :
       /\ login.clicks[i].pc = "authenticateMe"
       /\ login' = onAuthenticated(login, i, ok)
       /\ UNCHANGED <<boardVars, server>>

\* bordMainSetup of a running click resolves or rejects
BordMainSetupReturns ==
    \E i \in 1..Len(login.clicks), resolved \in BOOLEAN :
       /\ login.clicks[i].pc = "bordMainSetup"
       /\ login' = onBoardSetup(login, i, resolved)
       /\ UNCHANGED <<boardVars, server>>

NextLogin == LoginClick \/ AuthenticateMeReturns \/ BordMainSetupReturns

SpecLogin == InitLogin /\ [][NextLogin]_vars

(* -------------------------------- C17 ----------------------------------- *)

\* C17: a click navigates to the board only after authenticateMe returned
\* success for that click; a click whose authentication failed never
\* navigates and has set the error indicator, which stays shown until a later
\* click; a click that navigates cleared the indicator when it began, so the
\* indicator is clear at the navigation unless another click failed meanwhile.
C17_LoginGate ==
    /\ \A i \in 1..Len(login.clicks) :
          LET c == login.clicks[i] IN
          /\ c.navigated => c.auth = "ok" /\ c.pc = "done"
          /\ c.auth = "fail" => ~c.navigated /\ c.pc = "done" /\ c.errorSet
          /\ (c.navigated /\ ~c.failedSince) => ~c.errorAtNavigate
          /\ (c.auth = "fail" /\ i = Len(login.clicks)) => login.error
    /\ (login.route = "/board" /\ login.clicks # <<>>) =>
          \E i \in 1..Len(login.clicks) : login.clicks[i].navigated

\* a failed click followed by a click that succeeded and navigated
C17_Witness ==
    /\ Len(login.clicks) >= 2
    /\ login.clicks[1].auth = "fail"
    /\ login.clicks[2].navigated
    /\ ~login.clicks[2].failedSince
    /\ ~login.error
    /\ login.route = "/board"

(* ------------------------------------------------------------------------ *)
(* The backend (UserController.ts, auth.ts). A request handler is an async  *)
(* function: it is split at the awaits that touch the user collection or    *)
(* the token library, and the handlers of several requests interleave.      *)
(* ------------------------------------------------------------------------ *)

\* strings are sequences of tokens: words, single spaces, and whole JWTs
Str(s) == [type |-> "string", chars |-> s]
Word(t) == [type |-> "word", text |-> t]
Space == [type |-> "space"]
Jwt(k, iss) == [type |-> "jwt", key |-> k, iss |-> iss]

\* the HMAC key of the server and a key it does not hold
ServerKey == "key"
OtherKey == "other"

\* x == null in JavaScript: null or undefined
IsNullish(v) == v = Null \/ v = Undefined

\* validasaur rules used by registerUser
required(v) == ~IsNullish(v) /\ v # Str(<<>>)
minLength(v, n) == v.type = "string" /\ Len(v.chars) >= n
isEmail(v) ==
    /\ v.type = "string"
    /\ Len(v.chars) = 3
    /\ v.chars[2] = Word("@")
    /\ \A i \in {1, 3} : v.chars[i].type = "word" /\ v.chars[i] # Word("@")

\* V.validate(content, {...}) of registerUser
validate(content) ==
    /\ required(content.username)
    /\ required(content.password) /\ minLength(content.password, 5)
    /\ required(content.passwordCheck)
    /\ required(content.email) /\ isEmail(content.email)

\* bcrypt.hash and bcrypt.compareSync
hash(password) == [type |-> "hash", of |-> password.chars]
compareSync(password, h) == password.type = "string" /\ h.of = password.chars

\* user.schema.findOne({ email }): the first stored user with that email
findOne(users, email) ==
    IF \E i \in 1..Len(users) : users[i].email = email
    THEN users[CHOOSE i \in 1..Len(users) :
                 /\ users[i].email = email
                 /\ \A j \in 1..(i - 1) : users[j].email # email]
    ELSE Null

\* user.schema.insertOne(payload)
insertOne(users, payload) ==
    Append(users, [type |-> "user", id |-> Len(users) + 1,
                   username |-> payload.username, email |-> payload.email,
                   password |-> payload.password])

\* header.split(' '): the segments between the spaces
RECURSIVE split(_)
split(chars) ==
    IF \E i \in 1..Len(chars) : chars[i] = Space
    THEN LET i == CHOOSE i \in 1..Len(chars) :
                    /\ chars[i] = Space
                    /\ \A j \in 1..(i - 1) : chars[j] # Space
         IN <<Str(SubSeq(chars, 1, i - 1))>>
              \o split(SubSeq(chars, i + 1, Len(chars)))
    ELSE <<Str(chars)>>

\* authHeader.split(' ')[1]
SecondPart(header) ==
    IF Len(split(header.chars)) >= 2 THEN split(header.chars)[2] ELSE Undefined

\* !jwt
Falsy(v) == IsNullish(v) \/ v = Str(<<>>)

\* the token is a JWT signed with the key
Verifies(jwt, k) ==
    /\ Len(jwt.chars) = 1
    /\ jwt.chars[1].type = "jwt"
    /\ jwt.chars[1].key = k

\* verify(jwt, key): the payload of a token signed with the key; for any
\* other token the library rejects, and the caller also provides for a falsy
\* result
verify(jwt, k) ==
    IF Verifies(jwt, k)
    THEN {[type |-> "payload", iss |-> jwt.chars[1].iss]}
    ELSE {[type |-> "throws"], Null}

\* create({alg, typ}, {exp, iss: {_id, email, username}, iat}, key)
create(u, k) ==
    Str(<<Jwt(k, [id |-> u.id, email |-> u.email, username |-> u.username])>>)

\* a request as it is received
NewReq(kind, body, header) ==
    [kind |-> kind, pc |-> "start", body |-> body, header |-> header,
     status |-> 0, response |-> Undefined, token |-> Undefined,
     invoked |-> FALSE, existing |-> Undefined]

\* the request ends with the status and the response body
End(r, status, body) == [r EXCEPT !.pc = "done", !.status = status,
                                  !.response = body]

\* the values clients send
Ann == Str(<<Word("ann")>>)
AnnMail == Str(<<Word("ann"), Word("@"), Word("x.io")>>)
BobMail == Str(<<Word("bob"), Word("@"), Word("x.io")>>)
Pw4 == Str(<<Word("p"), Word("w"), Word("1"), Word("2")>>)
Pw5 == Str(<<Word("p"), Word("w"), Word("1"), Word("2"), Word("3")>>)
Pw6 == Str(<<Word("q"), Word("w"), Word("e"), Word("r"), Word("t"), Word("y")>>)
Forged ==
    Str(<<Word("Bearer"), Space,
          Jwt(OtherKey, [id |-> 1, email |-> AnnMail, username |-> Ann])>>)

RegisterBodies ==
    [username : {Undefined, Ann}, password : {Pw4, Pw5},
     passwordCheck : {Pw5, Pw6}, email : {Ann, AnnMail, BobMail}]

LoginBodies == [email : {Undefined, AnnMail, BobMail},
                password : {Undefined, Pw5, Pw6}]

LoginHeaders == {Null, Forged}

\* the tokens the server has handed out in /login responses
Handed ==
    {server.reqs[i].response.jwt : i \in
       {j \in 1..Len(server.reqs) : /\ server.reqs[j].kind = "login"
                                    /\ server.reqs[j].status = 200}}

MeHeaders ==
    {Null, Str(<<Word("Bearer")>>), Str(<<Word("Bearer"), Space>>), Forged}
      \cup {Str(<<Word("Bearer"), Space>> \o t.chars) : t \in Handed}

\* registerUser up to `await user.schema.findOne`: validation and the
\* comparison of the two passwords
registerUserStart(r) ==
    IF ~validate(r.body) THEN End(r, 400, Undefined)
    ELSE IF r.body.password # r.body.passwordCheck THEN End(r, 400, Undefined)
    ELSE [r EXCEPT !.pc = "findOne"]

\* registerUser resumed with the result of findOne, up to insertOne
registerUserFound(r, existingUser) ==
    IF existingUser # Null
    THEN End([r EXCEPT !.existing = existingUser], 424, Undefined)
    ELSE [r EXCEPT !.pc = "insertOne", !.existing = existingUser]

\* the payload registerUser inserts
registerUserPayload(r) ==
    [username |-> r.body.username, email |-> r.body.email,
     password |-> hash(r.body.password)]

\* registerUser after insertOne: the response body
registerUserInserted(r, newUserId) ==
    End(r, 200, [type |-> "object", id |-> newUserId,
                 username |-> r.body.username, email |-> r.body.email])

\* loginUser up to `await user.schema.findOne`
loginUserStart(r) ==
    IF ~(~IsNullish(r.body.email) /\ ~IsNullish(r.body.password))
    THEN End(r, 400, Undefined)
    ELSE [r EXCEPT !.pc = "findOne"]

\* loginUser resumed with the result of findOne
loginUserFound(r, u) ==
    IF u = Null THEN End([r EXCEPT !.existing = u], 424, Undefined)
    ELSE IF ~compareSync(r.body.password, u.password)
    THEN End([r EXCEPT !.existing = u], 400, Undefined)
    ELSE LET jwt == IF IsNullish(r.header) THEN create(u, ServerKey)
                    ELSE r.header
         IN End([r EXCEPT !.existing = u], 200,
                [type |-> "object", user |-> u, jwt |-> jwt])

\* authMiddleware up to `await verify(jwt, key)`
authMiddlewareStart(r) ==
    IF IsNullish(r.header) THEN End(r, 401, [type |-> "object"])
    ELSE IF Falsy(SecondPart(r.header)) THEN End(r, 401, Undefined)
    ELSE [r EXCEPT !.pc = "verify", !.token = SecondPart(r.header)]

\* authMiddleware resumed with the outcome of verify: next() with a payload,
\* 401 with a falsy value; a rejection leaves the middleware and the
\* framework answers 500
authMiddlewareVerified(r, verified) ==
    IF verified = [type |-> "throws"] THEN End(r, 500, Undefined)
    ELSE IF IsNullish(verified) THEN End(r, 401, Undefined)
    ELSE [r EXCEPT !.pc = "me", !.invoked = TRUE]

\* the handler of /me after the middleware called it
meHandler(r, status) == End(r, status, Undefined)

InitServer ==
    /\ state = initialState
    /\ issueIdIncrement = InitialCounter
    /\ issueListsNames = InitialNames
    /\ test = <<>>
    /\ mounted = TRUE
    /\ last = [op |-> "init", before |-> initialState, dispatched |-> <<>>,
               threw |-> FALSE, info |-> NoInfo]
    /\ issued = <<>>
    /\ login = LoginViewInit
    /\ server = ServerInit

\* the server with one more request, its handler run to its first await
Received(r) == [server EXCEPT !.reqs = Append(@, r)]

RegisterReceive ==
    /\ Len(server.reqs) < MaxRequests
    /\ \E body \in RegisterBodies :
          server' = Received(registerUserStart(NewReq("register", body, Null)))
    /\ UNCHANGED <<boardVars, login>>

LoginReceive ==
    /\ Len(server.reqs) < MaxRequests
    /\ \E body \in LoginBodies, header \in LoginHeaders :
          server' = Received(loginUserStart(NewReq("login", body, header)))
    /\ UNCHANGED <<boardVars, login>>

MeReceive ==
    /\ Len(server.reqs) < MaxRequests
    /\ \E header \in MeHeaders :
          server' = Received(authMiddlewareStart(NewReq("me", Undefined, header)))
    /\ UNCHANGED <<boardVars, login>>

\* the pending request at position i is of the kind and waits at the await
Waiting(i, kind, pc) ==
    server.reqs[i].kind = kind /\ server.reqs[i].pc = pc

RegisterFindOne ==
    \E i \in 1..Len(server.reqs) :
       /\ Waiting(i, "register", "findOne")
       /\ server' = [server EXCEPT !.reqs[i] =
             registerUserFound(@, findOne(server.users, @.body.email))]
       /\ UNCHANGED <<boardVars, login>>

RegisterInsertOne ==
    \E i \in 1..Len(server.reqs) :
       /\ Waiting(i, "register", "insertOne")
       /\ server' = [server EXCEPT
             !.users = insertOne(@, registerUserPayload(server.reqs[i])),
             !.reqs[i] = registerUserInserted(@, Len(server.users) + 1)]
       /\ UNCHANGED <<boardVars, login>>

LoginFindOne ==
    \E i \in 1..Len(server.reqs) :
       /\ Waiting(i, "login", "findOne")
       /\ server' = [server EXCEPT !.reqs[i] =
             loginUserFound(@, findOne(server.users, @.body.email))]
       /\ UNCHANGED <<boardVars, login>>

MeVerify ==
    \E i \in 1..Len(server.reqs) :
       /\ Waiting(i, "me", "verify")
       /\ \E verified \in verify(server.reqs[i].token, ServerKey) :
             server' = [server EXCEPT !.reqs[i] =
                          authMiddlewareVerified(@, verified)]
       /\ UNCHANGED <<boardVars, login>>

MeHandler ==
    \E i \in 1..Len(server.reqs), status \in {200, 400} :
       /\ Waiting(i, "me", "me")
       /\ server' = [server EXCEPT !.reqs[i] = meHandler(@, status)]
       /\ UNCHANGED <<boardVars, login>>

NextServer ==
    \/ RegisterReceive \/ RegisterFindOne \/ RegisterInsertOne
    \/ LoginReceive \/ LoginFindOne
    \/ MeReceive \/ MeVerify \/ MeHandler

SpecServer == InitServer /\ [][NextServer]_vars

\* the requests of a kind, by position
ReqsOf(kind) == {i \in 1..Len(server.reqs) : server.reqs[i].kind = kind}

(* -------------------------------- C18 ----------------------------------- *)

\* C18: the user store never holds two users with the same email, and a
\* registration that found its email stored is rejected.
C18_UniqueEmails ==
    /\ \A i, j \in 1..Len(server.users) :
          server.users[i].email = server.users[j].email => i = j
    /\ \A i \in ReqsOf("register") :
          (server.reqs[i].existing.type = "user") => server.reqs[i].status = 424

(* -------------------------------- C19 ----------------------------------- *)

\* C19: the middleware invokes the protected handler only for a request with
\* an Authorization header that has a token after its first space which
\* verifies; every other request ends with status 401.
C19_AuthGate ==
    \A i \in ReqsOf("me") :
       LET r == server.reqs[i]
           ok == /\ ~IsNullish(r.header)
                 /\ ~Falsy(SecondPart(r.header))
                 /\ Verifies(SecondPart(r.header), ServerKey)
       IN /\ r.invoked => ok
          /\ (r.pc = "done" /\ ~ok) => r.status = 401 /\ ~r.invoked

(* -------------------------------- C20 ----------------------------------- *)

\* C20: a /login response carries a token only when a stored user has the
\* email and the password matches the stored hash, and the token is one the
\* server signed for that user; every other /login request ends with an
\* error and no token.
C20_LoginToken ==
    \A i \in ReqsOf("login") :
       LET r == server.reqs[i]
           u == r.existing
           good == /\ ~IsNullish(r.body.email) /\ ~IsNullish(r.body.password)
                   /\ u.type = "user" /\ u.email = r.body.email
                   /\ \E k \in 1..Len(server.users) : server.users[k] = u
                   /\ compareSync(r.body.password, u.password)
       IN r.pc = "done" =>
            IF r.response.type = "object"
            THEN good /\ r.response.jwt = create(u, ServerKey)
            ELSE ~good /\ r.status \in {400, 424}

====
